---------------------------- MODULE Spec2Model ----------------------------
(***************************************************************************)
(* A model of the vplc output checker: the Token and Tokenizer classes of  *)
(* Tokenizer.ipp, the comparison engine diff_checker_base of               *)
(* diff_checker_base.ipp, and the two profiles diff_checker_char.cpp and   *)
(* diff_checker_real.cpp.                                                  *)
(*                                                                         *)
(* Characters are ASCII codes.  A stream is the sequence of the codes not  *)
(* yet read.  Text written to an ostream is a TLA+ string.  A long double  *)
(* is an integer count of units of 1/Scale, and its arithmetic is exact.   *)
(***************************************************************************)
EXTENDS Integers, Sequences, FiniteSets, TLC

(***************************************************************************)
(* Bounds of the model.                                                    *)
(***************************************************************************)
\* Longest stream of the comparison runs, in characters.
MaxLen == 2
\* Longest stream of the tokenizer runs, in characters.
MaxTokLen == 5
\* Widest deviation, in steps, of the long double values compared.
MaxDev == 2

(***************************************************************************)
(* Characters.                                                             *)
(***************************************************************************)
EOF == -1

\* '\n'
NL == 10

\* ' '
SP == 32

\* std::isspace in the "C" locale: the characters operator>> skips.
isspace(c) == c \in {9, 10, 11, 12, 13, 32}

isdigit(c) == 48 <= c /\ c <= 57

\* The text of one character, for the characters the model writes.
Chr(c) ==
    CASE c = 97 -> "a" [] c = 98 -> "b" [] c = 99 -> "c"
      [] c = 48 -> "0" [] c = 49 -> "1" [] c = 50 -> "2" [] c = 51 -> "3"
      [] c = 52 -> "4" [] c = 53 -> "5" [] c = 54 -> "6" [] c = 55 -> "7"
      [] c = 56 -> "8" [] c = 57 -> "9"
      [] c = 45 -> "-" [] c = 46 -> "." [] c = 124 -> "|"
      [] OTHER -> "?"

\* operator<< of an unsigned integer: its decimal digits.
RECURSIVE Dec(_)
Dec(n) == IF n < 10 THEN Chr(48 + n) ELSE Dec(n \div 10) \o Chr(48 + (n % 10))

(***************************************************************************)
(* long double.                                                            *)
(***************************************************************************)
Scale == 10 ^ 6

Abs(x) == IF x < 0 THEN -x ELSE x

\* x * p <= y * q, computed in two limbs so that no product leaves 32 bits.
MulLe(x, p, y, q) ==
    LET B  == 10 ^ 4
        hd == (x \div B) * p - (y \div B) * q
        ld == (x % B) * p - (y % B) * q
    IN  IF hd < -(p + q + 1) THEN TRUE
        ELSE IF hd > p + q + 1 THEN FALSE
        ELSE hd * B + ld <= 0

\* operator<< of a long double (precision 6, general format), for the
\* values with at most six significant digits and no exponent.
RECURSIVE FracText(_, _)
FracText(f, unit) ==
    IF f = 0 \/ unit = 0 THEN ""
    ELSE Chr(48 + (f \div unit)) \o FracText(f % unit, unit \div 10)

FormatReal(v) ==
    LET a == Abs(v)
        whole == a \div Scale
        \* six significant digits: 6 - (digits of whole) fraction digits
        keep == IF whole >= 10 ^ 5 THEN 0
                ELSE IF whole >= 10 ^ 4 THEN 1
                ELSE IF whole >= 10 ^ 3 THEN 2
                ELSE IF whole >= 10 ^ 2 THEN 3
                ELSE IF whole >= 10 THEN 4
                ELSE IF whole >= 1 THEN 5
                ELSE 6
        q == 10 ^ (6 - keep)
        r == ((a + q \div 2) \div q) * q    \* rounded to the kept digits
        frac == r % Scale
    IN  (IF v < 0 THEN "-" ELSE "") \o Dec(r \div Scale)
        \o (IF frac = 0 THEN "" ELSE "." \o FracText(frac, Scale \div 10))

(***************************************************************************)
(* The profiles: the template arguments T, VAL, EQ of each program.        *)
(***************************************************************************)
Profiles == {"char", "real"}

\* diff_checker_char.cpp: val
val_char(a) == 33 <= a /\ a <= 126

\* diff_checker_char.cpp: eq
eq_charOrdered(a, b) == a <= b

eq_char(a, b) == a = b

\* diff_checker_real.cpp: val (std::isfinite; every parsed value is finite)
val_real(a) == a \in Int

\* diff_checker_real.cpp: eq
eq_real(a, b) ==
    IF a - b <= Scale \div 100000 /\ b - a <= Scale \div 100000 THEN TRUE
    ELSE IF a >= 0
         THEN MulLe(a, 99, b, 100) /\ MulLe(b, 100, a, 101)
         ELSE MulLe(a, 101, b, 100) /\ MulLe(b, 100, a, 99)

VAL(T, a) == IF T = "char" THEN val_char(a) ELSE val_real(a)

EQ(T, a, b) == IF T = "char" THEN eq_char(a, b) ELSE eq_real(a, b)

\* ss << mValue
ValueText(T, v) == IF T = "char" THEN Chr(v) ELSE FormatReal(v)

(***************************************************************************)
(* Token.                                                                  *)
(***************************************************************************)
Kinds == {"Valid", "Space", "Newline", "EndOfFile", "Invalid"}

\* Token(Kind kind, Pos line, Pos token): mValue is value-initialised.
Token(kind, line, token) ==
    [mKind |-> kind, mValue |-> 0, mLine |-> line, mToken |-> token]

\* Token(T value, Pos line, Pos token)
ValidToken(value, line, token) ==
    [mKind |-> "Valid", mValue |-> value, mLine |-> line, mToken |-> token]

lstr(T, t) ==
    CASE t.mKind = "Valid" -> "'" \o ValueText(T, t.mValue) \o "'"
      [] t.mKind = "Newline" -> "<newline>"
      [] t.mKind = "Space" -> "<space>"
      [] t.mKind = "EndOfFile" -> "<end>"
      [] t.mKind = "Invalid" -> "<invalid-format>"

sstrAsLong(T, t) == lstr(T, t)

sstr(T, t) ==
    CASE t.mKind = "Valid" -> ValueText(T, t.mValue)
      [] t.mKind = "Newline" -> "\n"
      [] t.mKind = "Space" -> " "
      [] t.mKind = "EndOfFile" -> "<end>"
      [] t.mKind = "Invalid" -> "<invalid-format>"

\* s.isEqual(t)
isEqual(T, s, t) ==
    IF s.mKind # t.mKind THEN FALSE
    ELSE IF s.mKind = "Valid" THEN EQ(T, s.mValue, t.mValue)
    ELSE TRUE

(***************************************************************************)
(* std::istream: peek, get, and operator>> of a char and a long double.    *)
(***************************************************************************)
peek(in) == IF in = <<>> THEN EOF ELSE Head(in)

RECURSIVE skipws(_)
skipws(in) ==
    IF in # <<>> /\ isspace(Head(in)) THEN skipws(Tail(in)) ELSE in

\* mInput >> value, T = char: skips white space, then reads one character.
ExtractChar(in) ==
    LET s == skipws(in)
    IN  IF s = <<>> THEN [fail |-> TRUE, value |-> 0, in |-> s]
        ELSE [fail |-> FALSE, value |-> Head(s), in |-> Tail(s)]

\* The digits and the decimal point num_get accumulates after the sign.
RECURSIVE ScanNum(_, _)
ScanNum(in, acc) ==
    IF in # <<>> /\ isdigit(Head(in))
    THEN ScanNum(Tail(in),
                 [acc EXCEPT !.mant = @ * 10 + (Head(in) - 48),
                             !.nd = @ + 1,
                             !.fd = IF acc.dec THEN @ + 1 ELSE @])
    ELSE IF in # <<>> /\ Head(in) = 46 /\ ~acc.dec
    THEN ScanNum(Tail(in), [acc EXCEPT !.dec = TRUE])
    ELSE [acc |-> acc, in |-> in]

\* mInput >> value, T = long double: skips white space, accumulates an
\* optional sign, digits and one decimal point, and converts them; no
\* digit at all is a failed conversion.
ExtractReal(in) ==
    LET s   == skipws(in)
        neg == s # <<>> /\ Head(s) = 45
        sgn == s # <<>> /\ Head(s) \in {43, 45}
        r   == ScanNum(IF sgn THEN Tail(s) ELSE s,
                       [mant |-> 0, nd |-> 0, fd |-> 0, dec |-> FALSE])
        mag == IF r.acc.fd <= 6 THEN r.acc.mant * 10 ^ (6 - r.acc.fd)
               ELSE r.acc.mant \div 10 ^ (r.acc.fd - 6)
    IN  IF s = <<>> \/ r.acc.nd = 0
        THEN [fail |-> TRUE, value |-> 0, in |-> r.in]
        ELSE [fail |-> FALSE, value |-> IF neg THEN -mag ELSE mag, in |-> r.in]

Extract(T, in) == IF T = "char" THEN ExtractChar(in) ELSE ExtractReal(in)

(***************************************************************************)
(* Tokenizer.                                                              *)
(***************************************************************************)
\* Tokenizer(istream & input)
Tokenizer(input) ==
    [mInput |-> input, mIsValid |-> TRUE, mLine |-> 1, mToken |-> 1]

\* The outcome of a call: the tokenizer after it, the token returned, and
\* the exception thrown ("" when the call returns).
Returns(tz, tok) == [tz |-> tz, tok |-> tok, threw |-> ""]

Throws(tz, what) ==
    [tz |-> tz, tok |-> Token("Invalid", 0, 0), threw |-> what]

\* consume(c): mInput.get() must be the peeked c.
consumeByPeek(tz, c) ==
    IF peek(tz.mInput) # c
    THEN [ok |-> FALSE, tz |-> [tz EXCEPT !.mIsValid = FALSE]]
    ELSE [ok |-> TRUE, tz |-> tz]

consume(tz, c) ==
    IF peek(tz.mInput) # c
    THEN [ok |-> FALSE, tz |-> [tz EXCEPT !.mIsValid = FALSE]]
    ELSE [ok |-> TRUE,
          tz |-> IF tz.mInput = <<>> THEN tz
                 ELSE [tz EXCEPT !.mInput = Tail(@)]]

\* consume(EOF); mIsValid = false; return EndOfFile.
EndOfFileAtStaysValid(tz) ==
    LET c == consume(tz, EOF)
    IN  IF ~c.ok THEN Throws(c.tz, "runtime_error")
        ELSE Returns(c.tz, Token("EndOfFile", tz.mLine, tz.mToken))

EndOfFileAt(tz) ==
    LET c == consume(tz, EOF)
    IN  IF ~c.ok THEN Throws(c.tz, "runtime_error")
        ELSE Returns([c.tz EXCEPT !.mIsValid = FALSE],
                     Token("EndOfFile", tz.mLine, tz.mToken))

\* After a consumed '\n': EndOfFile at the end of the stream, else Newline.
NewlineAtKeepsToken(tz) ==
    IF peek(tz.mInput) = EOF THEN EndOfFileAt(tz)
    ELSE Returns([tz EXCEPT !.mLine = @ + 1],
                 Token("Newline", tz.mLine, tz.mToken))

NewlineAtNeverCollapsed(tz) ==
    Returns([tz EXCEPT !.mLine = @ + 1, !.mToken = 1],
            Token("Newline", tz.mLine, tz.mToken))

NewlineAt(tz) ==
    IF peek(tz.mInput) = EOF THEN EndOfFileAt(tz)
    ELSE Returns([tz EXCEPT !.mLine = @ + 1, !.mToken = 1],
                 Token("Newline", tz.mLine, tz.mToken))

\* After a consumed ' ': EndOfFile at the end of the stream, the newline's
\* token before a '\n', else Space.
AfterSpaceKeepsSpace(tz) ==
    IF peek(tz.mInput) = EOF THEN EndOfFileAt(tz)
    ELSE Returns([tz EXCEPT !.mToken = @ + 1],
                 Token("Space", tz.mLine, tz.mToken))

AfterSpace(tz) ==
    IF peek(tz.mInput) = EOF THEN EndOfFileAt(tz)
    ELSE IF peek(tz.mInput) = NL
    THEN LET d == consume(tz, NL)
         IN  IF ~d.ok THEN Throws(d.tz, "runtime_error")
             ELSE NewlineAt(d.tz)
    ELSE Returns([tz EXCEPT !.mToken = @ + 1],
                 Token("Space", tz.mLine, tz.mToken))

\* Tokenizer::next()
next(T, tz) ==
    IF tz.mIsValid = FALSE THEN Throws(tz, "logic_error")
    ELSE LET peekc == peek(tz.mInput) IN
    IF peekc = EOF THEN EndOfFileAt(tz)
    ELSE IF peekc = NL
    THEN LET c == consume(tz, NL)
         IN  IF ~c.ok THEN Throws(c.tz, "runtime_error") ELSE NewlineAt(c.tz)
    ELSE IF peekc = SP
    THEN LET c == consume(tz, SP)
         IN  IF ~c.ok THEN Throws(c.tz, "runtime_error")
             ELSE AfterSpace(c.tz)
    ELSE LET x == Extract(T, tz.mInput) IN
         IF x.fail
         THEN Returns([tz EXCEPT !.mInput = x.in, !.mIsValid = FALSE],
                      Token("Invalid", tz.mLine, tz.mToken))
         ELSE IF VAL(T, x.value)
         THEN Returns([tz EXCEPT !.mInput = x.in, !.mToken = @ + 1],
                      ValidToken(x.value, tz.mLine, tz.mToken))
         ELSE Returns([tz EXCEPT !.mInput = x.in, !.mIsValid = FALSE],
                      Token("Invalid", tz.mLine, tz.mToken))

\* The tokens of successive next() calls on a stream, up to the call that
\* leaves the tokenizer invalid.
RECURSIVE TokensFrom(_, _)
TokensFrom(T, tz) ==
    LET r == next(T, tz)
    IN  IF r.threw # "" THEN <<>>
        ELSE IF ~r.tz.mIsValid THEN <<r.tok>>
        ELSE <<r.tok>> \o TokensFrom(T, r.tz)

Tokenize(T, stream) == TokensFrom(T, Tokenizer(stream))

(***************************************************************************)
(* The run of diff_checker_base.                                           *)
(***************************************************************************)
VARIABLES
    \* the invocation and the files
    argc,            \* argument count
    argv4,           \* argv[4], "" when absent
    claimedOpens,    \* whether argv[2] can be opened
    correctOpens,    \* whether argv[3] can be opened
    claimedFile,     \* the contents of argv[2]
    correctFile,     \* the contents of argv[3]
    \* the template arguments of the program
    T,               \* the profile: Tokenizer<T, val, eq>
    ShowDiff,
    ShowOutput,
    \* the state of the run
    pc,              \* the statement the run is at
    isTestCaseHidden,
    claimed,         \* Tokenizer claimed
    correct,         \* Tokenizer correct
    claimedToken,
    correctToken,
    checkerOutput,   \* the stringstream, as the texts inserted
    i,               \* the look-ahead loop's counter
    cout,            \* standard output: its lines, the last one open
    cerr,            \* standard error: its lines
    ret,             \* the value returned, once pc = "done"
    \* history: the tokens each tokenizer has returned so far
    claimedTokens,
    correctTokens,
    \* the results of the isEqual calls of a comparison of two tokens
    equal

inputs ==
    <<argc, argv4, claimedOpens, correctOpens, claimedFile, correctFile,
      T, ShowDiff, ShowOutput>>

vars ==
    <<argc, argv4, claimedOpens, correctOpens, claimedFile, correctFile,
      T, ShowDiff, ShowOutput, pc, isTestCaseHidden, claimed, correct,
      claimedToken, correctToken, checkerOutput, i, cout, cerr, ret,
      claimedTokens, correctTokens, equal>>

\* The LookAhead template argument of diff_checker_char.cpp.
LookAheadChar == 10

\* The LookAhead template argument of diff_checker_real.cpp.
LookAheadReal == 3

LookAheadSwapped == IF T = "char" THEN LookAheadReal ELSE LookAheadChar

LookAhead == IF T = "char" THEN LookAheadChar ELSE LookAheadReal

(***************************************************************************)
(* std::ostream.  A line is the sequence of the texts inserted into it;    *)
(* the last line of cout is the one still open.                            *)
(***************************************************************************)
endl(out) == Append(out, <<>>)

\* out << s, where a s of "\n" is the newline character.
Insert(out, s) ==
    IF s = "\n" THEN endl(out)
    ELSE [out EXCEPT ![Len(out)] = Append(@, s)]

RECURSIVE InsertAll(_, _)
InsertAll(out, ss) ==
    IF ss = <<>> THEN out ELSE InsertAll(Insert(out, Head(ss)), Tail(ss))

\* The lines written so far: all of them but an empty open one.
Lines(out) ==
    IF out[Len(out)] = <<>> THEN SubSeq(out, 1, Len(out) - 1) ELSE out

RECURSIVE Text(_)
Text(line) == IF line = <<>> THEN "" ELSE Head(line) \o Text(Tail(line))

(***************************************************************************)
(* The inputs of the runs.                                                 *)
(***************************************************************************)
\* All streams over an alphabet, up to a length.
Streams(A, n) == UNION {[1..k -> A] : k \in 0..n}

\* 'a', 'b', space, newline, tab (white space that is no token), and the
\* control character 1 (no white space and rejected by val).
CharAlphabet == {97, 98, SP, NL, 9, 1}

\* '1', '2', '.', '-', space, newline.
RealAlphabet == {49, 50, 46, 45, SP, NL}

\* The long doubles of the model lie below 2^31 / Scale: no stream of the
\* real profile has four digits in a row.
InRange(s) ==
    \A k \in 1 .. Len(s) - 3 : \E d \in 0 .. 3 : ~isdigit(s[k + d])

\* The streams of profile p of up to n characters.
InputStreams(p, n) ==
    IF p = "char" THEN Streams(CharAlphabet, n)
    ELSE {s \in Streams(RealAlphabet, n) : InRange(s)}

\* "1 2 3\n" and "1 2 4\n"
Stream123 == <<49, SP, 50, SP, 51, NL>>

Stream124 == <<49, SP, 50, SP, 52, NL>>

ScenarioPairs == {<<Stream123, Stream123>>, <<Stream124, Stream123>>}

\* "1.0\n", "1.000001\n", "99\n", "100\n", "101\n", "-100\n", "-101\n"
Stream1p0 == <<49, 46, 48, NL>>

Stream1p000001 == <<49, 46, 48, 48, 48, 48, 48, 49, NL>>

Stream99 == <<57, 57, NL>>

Stream100 == <<49, 48, 48, NL>>

Stream101 == <<49, 48, 49, NL>>

StreamM100 == <<45, 49, 48, 48, NL>>

StreamM101 == <<45, 49, 48, 49, NL>>

\* Pairs <<claimed, correct>> of the real profile at the edges of the
\* tolerances.
TolerancePairs ==
    {<<Stream1p000001, Stream1p0>>, <<Stream101, Stream100>>,
     <<StreamM101, StreamM100>>, <<Stream99, Stream100>>,
     <<Stream100, Stream99>>, <<Stream100, Stream101>>}

\* Claimed files that reach the end of the look-ahead window: "1\n\n1" and
\* "1\n\n1 1" (real, a window of 3), eleven and twelve 'a' (char, a window
\* of 10); each against an empty ground truth and against "1" or "a".
Echo4 == <<49, NL, NL, 49>>

Echo6 == <<49, NL, NL, 49, SP, 49>>

Echo11 == [k \in 1 .. 11 |-> 97]

Echo12 == [k \in 1 .. 12 |-> 97]

EchoPairs(p) ==
    IF p = "real" THEN {Echo4, Echo6} \X {<<>>, <<49>>}
    ELSE {Echo11, Echo12} \X {<<>>, <<97>>}

\* The files of the graded runs are the streams without the tab (char) and
\* without the second digit (real): the tokenizer meets those characters
\* under SpecTok, and the grading loop sees tokens only.
FileStreams(p, n) ==
    {s \in InputStreams(p, n) : \A k \in DOMAIN s : s[k] \notin {9, 50}}

\* The pairs <<claimed, correct>> of file contents a run of profile p gets.
FilePairs(p) ==
    (FileStreams(p, MaxLen) \X FileStreams(p, MaxLen))
        \cup ScenarioPairs
        \cup (IF p = "real" THEN TolerancePairs ELSE {})
        \cup EchoPairs(p)

NoToken == Token("Invalid", 0, 0)

\* The state at the entry of diff_checker_base.
AtEntry ==
    /\ pc = "args"
    /\ isTestCaseHidden = FALSE
    /\ claimed = Tokenizer(<<>>)
    /\ correct = Tokenizer(<<>>)
    /\ claimedToken = NoToken
    /\ correctToken = NoToken
    /\ checkerOutput = <<>>
    /\ i = 0
    /\ cout = << <<>> >>
    /\ cerr = <<>>
    /\ ret = 0
    /\ claimedTokens = <<>>
    /\ correctTokens = <<>>
    /\ equal = [called |-> FALSE, ss |-> FALSE, st |-> FALSE, ts |-> FALSE]

Init ==
    /\ T \in Profiles
    /\ ShowDiff \in BOOLEAN
    /\ ShowOutput \in BOOLEAN
    /\ \/ \* too few arguments, or a hidden flag that is neither 0 nor 1
          /\ \E a \in {<<4, "">>, <<5, "2">>} : argc = a[1] /\ argv4 = a[2]
          /\ claimedOpens = TRUE /\ correctOpens = TRUE
          /\ claimedFile = <<>> /\ correctFile = <<>>
       \/ \* a file that cannot be opened
          /\ argc = 5
          /\ argv4 \in {"0", "1"}
          /\ \E o \in {<<FALSE, TRUE>>, <<TRUE, FALSE>>, <<FALSE, FALSE>>} :
                 claimedOpens = o[1] /\ correctOpens = o[2]
          /\ claimedFile = <<>> /\ correctFile = <<>>
       \/ \* two files that open
          /\ argc = 5
          /\ argv4 \in {"0", "1"}
          /\ claimedOpens = TRUE /\ correctOpens = TRUE
          /\ \E f \in FilePairs(T) : claimedFile = f[1] /\ correctFile = f[2]
    /\ AtEntry

(***************************************************************************)
(* diff_checker_base, statement by statement.                              *)
(***************************************************************************)
\* return r;
Return(r) == ret' = r /\ pc' = "done"

\* An exception no handler catches: std::terminate.
Terminate == pc' = "terminate" /\ UNCHANGED ret

\* Lines 37-53: the argument checks.
CheckArgs ==
    /\ pc = "args"
    /\ IF argc < 5
       THEN /\ cerr' = Append(cerr, "Invalid parameters.")
            /\ Return(1)
            /\ UNCHANGED isTestCaseHidden
       ELSE IF argv4 # "0" /\ argv4 # "1"
       THEN /\ cerr' = Append(cerr, "Invalid test-case-hidden parameter.")
            /\ Return(1)
            /\ UNCHANGED isTestCaseHidden
       ELSE /\ isTestCaseHidden' = (argv4 = "1")
            /\ pc' = "openClaimed"
            /\ UNCHANGED <<cerr, ret>>
    /\ UNCHANGED <<inputs, equal, claimed, correct, claimedToken, correctToken,
                   checkerOutput, i, cout, claimedTokens, correctTokens>>

\* Lines 55-61: ifstream claimedStream(claimedOutputPath).
OpenClaimed ==
    /\ pc = "openClaimed"
    /\ IF ~claimedOpens
       THEN /\ cout' = endl(Insert(cout, "0|Error opening the output file."))
            /\ Return(0)
       ELSE /\ pc' = "openCorrect"
            /\ UNCHANGED <<cout, ret>>
    /\ UNCHANGED <<inputs, equal, isTestCaseHidden, claimed, correct, claimedToken,
                   correctToken, checkerOutput, i, cerr, claimedTokens,
                   correctTokens>>

\* Lines 63-74: ifstream correctStream(correctOutputPath), and the two
\* tokenizers.
OpenCorrectGraded ==
    /\ pc = "openCorrect"
    /\ IF ~correctOpens
       THEN /\ cout' = endl(Insert(cout, "0|Error opening the output file."))
            /\ Return(0)
            /\ UNCHANGED <<claimed, correct, checkerOutput>>
       ELSE /\ claimed' = Tokenizer(claimedFile)
            /\ correct' = Tokenizer(correctFile)
            /\ checkerOutput' = <<>>
            /\ pc' = "loop"
            /\ UNCHANGED <<cout, ret>>
    /\ UNCHANGED <<inputs, equal, isTestCaseHidden, claimedToken, correctToken, i,
                   cerr, claimedTokens, correctTokens>>

OpenCorrect ==
    /\ pc = "openCorrect"
    /\ IF ~correctOpens
       THEN /\ cerr' = Append(cerr, "Error opening the ground-truth file.")
            /\ Return(1)
            /\ UNCHANGED <<claimed, correct, checkerOutput>>
       ELSE /\ claimed' = Tokenizer(claimedFile)
            /\ correct' = Tokenizer(correctFile)
            /\ checkerOutput' = <<>>
            /\ pc' = "loop"
            /\ UNCHANGED <<cerr, ret>>
    /\ UNCHANGED <<inputs, equal, isTestCaseHidden, claimedToken, correctToken, i,
                   cout, claimedTokens, correctTokens>>

\* Lines 91-113: the grade line of a mismatch.
MismatchLineNeverHidden(c, g) ==
    IF ShowDiff
    THEN <<"0|Unexpected ", lstr(T, c), " at line ", Dec(c.mLine),
           ", token ", Dec(c.mToken), ", while expecting ", lstr(T, g), ".">>
    ELSE <<"0|Wrong output.">>

MismatchLineSwappedPosition(c, g) ==
    IF ShowDiff
    THEN IF isTestCaseHidden
         THEN <<"0|Wrong output. (Mismatch intentionally hidden.)">>
         ELSE <<"0|Unexpected ", lstr(T, c), " at line ", Dec(c.mToken),
                ", token ", Dec(c.mLine), ", while expecting ", lstr(T, g),
                ".">>
    ELSE <<"0|Wrong output.">>

MismatchLineNoGrade(c, g) == <<"Wrong output.">>

MismatchLine(c, g) ==
    IF ShowDiff
    THEN IF isTestCaseHidden
         THEN <<"0|Wrong output. (Mismatch intentionally hidden.)">>
         ELSE <<"0|Unexpected ", lstr(T, c), " at line ", Dec(c.mLine),
                ", token ", Dec(c.mToken), ", while expecting ", lstr(T, g),
                ".">>
    ELSE <<"0|Wrong output.">>

\* Line 81: correctToken.kind() == Invalid (c, g: the claimed and the
\* ground-truth token of the iteration).
BadGroundTruthCheckedOnClaimed(c, g) == c.mKind = "Invalid"

BadGroundTruthNever(c, g) == FALSE

BadGroundTruth(c, g) == g.mKind = "Invalid"

\* Line 89: !correctToken.isEqual(claimedToken)
MismatchByKindOnly(c, g) == g.mKind # c.mKind

MismatchClaimedFirst(c, g) == ~isEqual(T, c, g)

Mismatch(c, g) == ~isEqual(T, g, c)

\* Lines 76-163: one iteration of the comparison loop, up to the look-ahead
\* loop of a mismatch.
Compare ==
    /\ pc = "loop"
    /\ LET c == next(T, claimed)
           g == next(T, correct)
       IN  IF c.threw # ""
           THEN /\ claimed' = c.tz
                /\ Terminate
                /\ UNCHANGED <<correct, claimedToken, correctToken,
                               checkerOutput, cout, cerr, claimedTokens,
                               correctTokens>>
           ELSE
           /\ claimed' = c.tz
           /\ claimedToken' = c.tok
           /\ claimedTokens' = Append(claimedTokens, c.tok)
           /\ IF g.threw # ""
              THEN /\ correct' = g.tz
                   /\ Terminate
                   /\ UNCHANGED <<correctToken, checkerOutput, cout, cerr,
                                  correctTokens>>
              ELSE
              /\ correct' = g.tz
              /\ correctToken' = g.tok
              /\ correctTokens' = Append(correctTokens, g.tok)
              /\ IF BadGroundTruth(c.tok, g.tok)
                 THEN /\ cerr' = Append(cerr,
                                        "Ground-truth file format is invalid.")
                      /\ Return(1)
                      /\ UNCHANGED <<checkerOutput, cout>>
                 ELSE
                 /\ checkerOutput' = Append(checkerOutput, sstr(T, c.tok))
                 /\ UNCHANGED cerr
                 /\ IF Mismatch(c.tok, g.tok)
                    THEN LET graded == endl(InsertAll(cout,
                                                 MismatchLine(c.tok, g.tok)))
                         IN  IF ~ShowOutput
                             THEN cout' = graded /\ Return(0)
                             ELSE IF isTestCaseHidden
                             THEN /\ cout' = endl(Insert(graded,
                                       "(Your output is intentionally hidden.)"))
                                  /\ Return(0)
                             ELSE /\ cout' = endl(Insert(graded,
                                       "Your output (as parsed):"))
                                  /\ pc' = "lookahead"
                                  /\ UNCHANGED ret
                    ELSE IF g.tok.mKind = "EndOfFile"
                    THEN /\ cout' = Insert(cout, "1|Correct output.")
                         /\ Return(0)
                    ELSE /\ pc' = "loop"
                         /\ UNCHANGED <<cout, ret>>
    /\ UNCHANGED <<inputs, equal, isTestCaseHidden, i>>

\* Lines 127-128: the look-ahead loop breaks at an EndOfFile or Invalid
\* token.
EchoStopsAtInvalidOnly(t) == t.mKind = "Invalid"

EchoStops(t) == t.mKind \in {"EndOfFile", "Invalid"}

\* Lines 125-137: one iteration of the look-ahead loop.
LookAheadStep ==
    /\ pc = "lookahead"
    /\ i < LookAhead
    /\ ~EchoStops(claimedToken)
    /\ LET c == next(T, claimed)
       IN  /\ claimed' = c.tz
           /\ IF c.threw # ""
              THEN /\ Terminate
                   /\ UNCHANGED <<claimedToken, checkerOutput, i,
                                  claimedTokens>>
              ELSE /\ claimedToken' = c.tok
                   /\ claimedTokens' = Append(claimedTokens, c.tok)
                   /\ checkerOutput' = Append(checkerOutput, sstr(T, c.tok))
                   /\ i' = i + 1
                   /\ UNCHANGED <<pc, ret>>
    /\ UNCHANGED <<inputs, equal, isTestCaseHidden, correct, correctToken, cout,
                   cerr, correctTokens>>

\* Lines 139-146: the truncation marker.
Marker(t) ==
    IF t.mKind = "Invalid" THEN <<"..?..">>
    ELSE IF t.mKind # "EndOfFile" THEN <<".....">>
    ELSE <<>>

\* Lines 139-157: the end of the look-ahead loop, the marker, and the echo
\* of checkerOutput.
PrintOutput ==
    /\ pc = "lookahead"
    /\ ~(i < LookAhead /\ ~EchoStops(claimedToken))
    /\ checkerOutput' = checkerOutput \o Marker(claimedToken)
    /\ cout' = endl(InsertAll(cout, checkerOutput'))
    /\ Return(0)
    /\ UNCHANGED <<inputs, equal, isTestCaseHidden, claimed, correct, claimedToken,
                   correctToken, i, cerr, claimedTokens, correctTokens>>

Next ==
    \/ CheckArgs
    \/ OpenClaimed
    \/ OpenCorrect
    \/ Compare
    \/ LookAheadStep
    \/ PrintOutput

Spec == Init /\ [][Next]_vars

\* The exit status of the process, once it has ended.
Ended == pc \in {"done", "terminate"}

ExitStatus == IF pc = "terminate" THEN 134 ELSE ret

(***************************************************************************)
(* A caller that tokenizes one stream: next() until it throws.             *)
(***************************************************************************)
InitTok ==
    /\ T \in Profiles
    /\ ShowDiff = FALSE /\ ShowOutput = FALSE
    /\ argc = 5 /\ argv4 = "0"
    /\ claimedOpens = TRUE /\ correctOpens = TRUE
    /\ claimedFile \in InputStreams(T, MaxTokLen)
    /\ correctFile = <<>>
    /\ pc = "tokenize"
    /\ isTestCaseHidden = FALSE
    /\ claimed = Tokenizer(claimedFile)
    /\ correct = Tokenizer(<<>>)
    /\ claimedToken = NoToken
    /\ correctToken = NoToken
    /\ checkerOutput = <<>>
    /\ i = 0
    /\ cout = << <<>> >>
    /\ cerr = <<>>
    /\ ret = 0
    /\ claimedTokens = <<>>
    /\ correctTokens = <<>>
    /\ equal = [called |-> FALSE, ss |-> FALSE, st |-> FALSE, ts |-> FALSE]

\* claimedToken = claimed.next()
CallNext ==
    /\ pc = "tokenize"
    /\ LET r == next(T, claimed)
       IN  /\ claimed' = r.tz
           /\ IF r.threw # ""
              THEN /\ Terminate
                   /\ UNCHANGED <<claimedToken, claimedTokens>>
              ELSE /\ claimedToken' = r.tok
                   /\ claimedTokens' = Append(claimedTokens, r.tok)
                   /\ UNCHANGED <<pc, ret>>
    /\ UNCHANGED <<inputs, equal, isTestCaseHidden, correct, correctToken,
                   checkerOutput, i, cout, cerr, correctTokens>>

NextTok == CallNext

SpecTok == InitTok /\ [][NextTok]_vars

(***************************************************************************)
(* A caller that compares two tokens: s.isEqual(s), s.isEqual(t) and       *)
(* t.isEqual(s), for s = correctToken and t = claimedToken.                *)
(***************************************************************************)
CharValues == {33, 97, 98, 126}

\* Counts of units around 0 and around +-100, at three magnitudes: steps
\* of 1e-6 and 1e-5 (the absolute tolerance) and of 1 (the 1% band).
RealValues ==
    LET near == (-MaxDev) .. MaxDev
        mants == near \cup {100 + d : d \in near} \cup {-100 + d : d \in near}
    IN  {m * 10 ^ e : m \in mants, e \in {0, 1, 6}}

Values(p) == IF p = "char" THEN CharValues ELSE RealValues

Positions == {<<1, 1>>, <<2, 3>>}

Tokens(p) ==
    {ValidToken(v, q[1], q[2]) : v \in Values(p), q \in Positions}
        \cup {Token(k, q[1], q[2]) : k \in Kinds \ {"Valid"}, q \in Positions}

InitEq ==
    /\ T \in Profiles
    /\ ShowDiff = FALSE /\ ShowOutput = FALSE
    /\ argc = 5 /\ argv4 = "0"
    /\ claimedOpens = TRUE /\ correctOpens = TRUE
    /\ claimedFile = <<>> /\ correctFile = <<>>
    /\ pc = "isEqual"
    /\ isTestCaseHidden = FALSE
    /\ claimed = Tokenizer(<<>>)
    /\ correct = Tokenizer(<<>>)
    /\ claimedToken \in Tokens(T)
    /\ correctToken \in Tokens(T)
    /\ checkerOutput = <<>>
    /\ i = 0
    /\ cout = << <<>> >>
    /\ cerr = <<>>
    /\ ret = 0
    /\ claimedTokens = <<>>
    /\ correctTokens = <<>>
    /\ equal = [called |-> FALSE, ss |-> FALSE, st |-> FALSE, ts |-> FALSE]

CallIsEqual ==
    /\ pc = "isEqual"
    /\ equal' = [called |-> TRUE,
                 ss |-> isEqual(T, correctToken, correctToken),
                 st |-> isEqual(T, correctToken, claimedToken),
                 ts |-> isEqual(T, claimedToken, correctToken)]
    /\ pc' = "done"
    /\ UNCHANGED <<inputs, isTestCaseHidden, claimed, correct, claimedToken,
                   correctToken, checkerOutput, i, cout, cerr, ret,
                   claimedTokens, correctTokens>>

NextEq == CallIsEqual

SpecEq == InitEq /\ [][NextEq]_vars

(***************************************************************************)
(* What the claims speak of.                                               *)
(***************************************************************************)
\* The invocation passes the argument checks.
ArgsOk == argc >= 5 /\ argv4 \in {"0", "1"}

\* Both files open, so that the comparison loop runs.
BothOpen == ArgsOk /\ claimedOpens /\ correctOpens

\* The whole token sequence of each file, whatever the run reads of it.
claimedSeq == Tokenize(T, claimedFile)

correctSeq == Tokenize(T, correctFile)

Min(a, b) == IF a <= b THEN a ELSE b

\* The positions whose pair of tokens is unequal.
Unequal ==
    LET cs == claimedSeq
        gs == correctSeq
    IN  {k \in 1 .. Min(Len(cs), Len(gs)) : ~isEqual(T, gs[k], cs[k])}

FirstUnequal ==
    LET u == Unequal
    IN  CHOOSE k \in u : \A j \in u : k <= j

\* The pairs are equal up to and including the ground truth's EndOfFile.
EqualUpToEndOfFile ==
    LET cs == claimedSeq
        gs == correctSeq
    IN  \E n \in 1 .. Min(Len(cs), Len(gs)) :
            /\ gs[n].mKind = "EndOfFile"
            /\ \A k \in 1 .. n : isEqual(T, gs[k], cs[k])

\* A grade line is a line begun by one of the program's insertions of
\* "<grade>|"; text echoed from the claimed file is never one.
Grade0Heads ==
    {"0|Unexpected ", "0|Wrong output.",
     "0|Wrong output. (Mismatch intentionally hidden.)",
     "0|Error opening the output file."}

Grade1Heads == {"1|Correct output."}

IsGradeLine(line) ==
    line # <<>> /\ line[1] \in Grade0Heads \cup Grade1Heads

GradeOf(line) == IF line[1] \in Grade1Heads THEN 1 ELSE 0

\* The numbers of the lines of standard output that are grade lines.
GradeLines == {k \in DOMAIN Lines(cout) : IsGradeLine(Lines(cout)[k])}

WroteGrade(g) == \E k \in GradeLines : GradeOf(Lines(cout)[k]) = g

(***************************************************************************)
(* C1.  Grade 1 exactly when the token pairs are equal through the ground  *)
(* truth's EndOfFile; the run stops at the first unequal pair.             *)
(***************************************************************************)
\* C1 as stated: for two files that open, the run writes the grade 1 line
\* if and only if the pairs of tokens are equal at every position up to and
\* including the ground truth's EndOfFile; and if some pair is unequal the
\* run finalizes grade 0 at the first such position and never writes
\* grade 1.
C1_AsStated ==
    (Ended /\ BothOpen) =>
        /\ WroteGrade(1) <=> EqualUpToEndOfFile
        /\ Unequal # {} =>
              /\ Len(correctTokens) = FirstUnequal
              /\ WroteGrade(0)
              /\ ~WroteGrade(1)

\* C1 as amended: for two files that open, the run writes the grade 1 line
\* if and only if the pairs of tokens are equal at every position up to and
\* including the ground truth's EndOfFile; if some pair is unequal the run
\* stops at the first such position and never writes grade 1: it finalizes
\* grade 0 there when the ground-truth token of that pair is not Invalid,
\* and writes no grade line and exits non-zero when it is Invalid.
C1_GradeOneIffEqual ==
    (Ended /\ BothOpen) =>
        /\ WroteGrade(1) <=> EqualUpToEndOfFile
        /\ Unequal # {} =>
              /\ Len(correctTokens) = FirstUnequal
              /\ ~WroteGrade(1)
              /\ IF correctSeq[FirstUnequal].mKind = "Invalid"
                 THEN GradeLines = {} /\ ExitStatus # 0
                 ELSE WroteGrade(0)

\* A run that found its first unequal pair at the second position or
\* later, and graded it 0.
C1_Witness ==
    /\ Ended /\ BothOpen
    /\ Unequal # {} /\ FirstUnequal >= 2
    /\ WroteGrade(0)

(***************************************************************************)
(* C2.  The grade line of scenario B.                                      *)
(***************************************************************************)
\* Claimed "1 2 4\n" against "1 2 3\n", not hidden, show-diff-detail on.
ScenarioB ==
    /\ BothOpen /\ argv4 = "0" /\ ShowDiff
    /\ claimedFile = Stream124 /\ correctFile = Stream123

\* A mismatch the run reports in detail.
DetailedMismatch ==
    /\ BothOpen /\ argv4 = "0" /\ ShowDiff
    /\ Unequal # {} /\ correctSeq[FirstUnequal].mKind # "Invalid"

\* C2 as stated: in scenario B the grade line is exactly
\* 0|Unexpected '4' at line 1, token 3, while expecting '3'.
C2_AsStated ==
    (Ended /\ ScenarioB) =>
        Text(Lines(cout)[1])
            = "0|Unexpected '4' at line 1, token 3, while expecting '3'."

\* C2 as amended: in scenario B the grade line is exactly
\* 0|Unexpected '4' at line 1, token 5, while expecting '3'.
\* ('4' is the fifth token of its line: the two Space tokens before it are
\* counted), and in every mismatch reported in detail the line and token
\* number written are the mLine and mToken the tokenizer gave the
\* mismatching claimed token.
C2_ScenarioBTokenFive ==
    /\ (Ended /\ ScenarioB) =>
          /\ Text(Lines(cout)[1])
                = "0|Unexpected '4' at line 1, token 5, while expecting '3'."
          /\ [k \in 1 .. 5 |-> claimedSeq[k].mKind]
                = <<"Valid", "Space", "Valid", "Space", "Valid">>
          /\ [k \in 1 .. 5 |-> claimedSeq[k].mToken] = <<1, 2, 3, 4, 5>>
    /\ (Ended /\ DetailedMismatch) =>
          LET c == claimedSeq[FirstUnequal]
              g == correctSeq[FirstUnequal]
          IN  Lines(cout)[1]
                = <<"0|Unexpected ", lstr(T, c), " at line ", Dec(c.mLine),
                    ", token ", Dec(c.mToken), ", while expecting ",
                    lstr(T, g), ".">>

\* Scenario B has run to its end and written its grade line.
C2_Witness == Ended /\ ScenarioB /\ GradeLines = {1}

(***************************************************************************)
(* C3.  A hidden test case discloses nothing.                              *)
(***************************************************************************)
\* The run ends in a mismatch: the first unequal pair is graded 0.
EndsInMismatch ==
    BothOpen /\ Unequal # {} /\ correctSeq[FirstUnequal].mKind # "Invalid"

\* The one standard output of a hidden mismatch under given toggles.
HiddenOutput(diff, echo) ==
    << IF diff THEN <<"0|Wrong output. (Mismatch intentionally hidden.)">>
       ELSE <<"0|Wrong output.">> >>
    \o (IF echo THEN << <<"(Your output is intentionally hidden.)">> >>
        ELSE <<>>)
    \o << <<>> >>

\* C3: with hidden = true, the complete standard output of a run that ends
\* in a mismatch is a function of the two display toggles alone, so any two
\* such runs with the same toggles write the same output, whatever the
\* streams hold and wherever they differ; and no token is pulled for an
\* echo.
C3_HiddenDisclosesNothing ==
    (Ended /\ EndsInMismatch /\ argv4 = "1") =>
        /\ cout = HiddenOutput(ShowDiff, ShowOutput)
        /\ Len(claimedTokens) = Len(correctTokens)

\* A hidden run that met its mismatch at the second position or later,
\* with both toggles on.
C3_Witness ==
    /\ Ended /\ EndsInMismatch /\ argv4 = "1"
    /\ ShowDiff /\ ShowOutput
    /\ FirstUnequal >= 2
    /\ claimedFile # correctFile

(***************************************************************************)
(* C4.  A ground-truth file that cannot be opened.                         *)
(***************************************************************************)
\* C4 as stated: whenever the ground-truth file cannot be opened the run
\* writes no grade line and exits non-zero, whatever the claimed path is.
C4_AsStated ==
    (Ended /\ ~correctOpens) => (GradeLines = {} /\ ExitStatus # 0)

\* C4 as amended: whenever the ground-truth file cannot be opened and the
\* claimed-output file opens, the run writes nothing to standard output and
\* exits non-zero; when neither file opens (and the arguments are well
\* formed) the claimed file is tried first, and the run writes
\* 0|Error opening the output file. and exits 0.
C4_GroundTruthUnopenable ==
    (Ended /\ ~correctOpens) =>
        IF claimedOpens
        THEN cout = << <<>> >> /\ GradeLines = {} /\ ExitStatus # 0
        ELSE ArgsOk =>
                /\ Lines(cout) = << <<"0|Error opening the output file.">> >>
                /\ ExitStatus = 0

\* A run that opened the claimed file, could not open the ground truth,
\* and has ended.
C4_Witness ==
    /\ Ended /\ ArgsOk /\ claimedOpens /\ ~correctOpens
    /\ cerr = <<"Error opening the ground-truth file.">>

(***************************************************************************)
(* C5.  An Invalid ground-truth token.                                     *)
(***************************************************************************)
\* C5: whenever a token pulled from the ground-truth tokenizer is Invalid,
\* the run has ended with a non-zero exit status and standard output is
\* empty, whatever the claimed token of the same step is.
C5_InvalidGroundTruth ==
    (\E k \in DOMAIN correctTokens : correctTokens[k].mKind = "Invalid") =>
        /\ Ended
        /\ ExitStatus # 0
        /\ cout = << <<>> >>

\* The second ground-truth token is Invalid and the claimed token of that
\* step is a Valid one.
C5_Witness ==
    /\ Len(correctTokens) = 2
    /\ correctTokens[2].mKind = "Invalid"
    /\ claimedTokens[2].mKind = "Valid"

(***************************************************************************)
(* C6.  Failures attributed to the contestant.                             *)
(***************************************************************************)
\* The comparison loop pulled an Invalid claimed token (the look-ahead
\* loop's tokens come after those of the comparison loop).
ClaimedInvalidInLoop ==
    \E k \in 1 .. Len(correctTokens) : claimedTokens[k].mKind = "Invalid"

OpenFailureGraded ==
    (Ended /\ ArgsOk /\ ~claimedOpens) =>
        /\ Lines(cout) = << <<"0|Error opening the output file.">> >>
        /\ ExitStatus = 0

\* C6 as stated: whenever the claimed tokenizer yields Invalid in the
\* comparison loop the run writes a grade 0 line and exits 0; and when the
\* claimed file cannot be opened the run writes
\* 0|Error opening the output file. and exits 0.
C6_AsStated ==
    /\ (Ended /\ ClaimedInvalidInLoop) => (WroteGrade(0) /\ ExitStatus = 0)
    /\ OpenFailureGraded

\* C6 as amended: whenever the claimed tokenizer yields Invalid in the
\* comparison loop and the ground-truth token of the same step is not
\* Invalid, the run writes a grade 0 line and exits 0 (when it is Invalid
\* too, the run writes no grade line and exits non-zero); and when the
\* claimed file cannot be opened the run writes
\* 0|Error opening the output file. and exits 0.
C6_ContestantFailures ==
    /\ (Ended /\ ClaimedInvalidInLoop) =>
          IF correctTokens[Len(correctTokens)].mKind = "Invalid"
          THEN GradeLines = {} /\ ExitStatus # 0
          ELSE WroteGrade(0) /\ ExitStatus = 0
    /\ OpenFailureGraded

\* The claimed tokenizer yielded Invalid at the second step against a
\* ground-truth token that is not Invalid, and the run has ended.
C6_Witness ==
    /\ Ended
    /\ Len(correctTokens) = 2
    /\ claimedTokens[2].mKind = "Invalid"
    /\ correctTokens[2].mKind # "Invalid"

(***************************************************************************)
(* C7.  At most one grade line, and the exit status.                       *)
(***************************************************************************)
\* C7: a run that has ended wrote at most one grade line, of grade 0 or 1,
\* as the first line of standard output; it exits 0 if and only if it wrote
\* exactly one, and non-zero if and only if it wrote none.
C7_OneGradeLine ==
    Ended =>
        /\ Cardinality(GradeLines) <= 1
        /\ GradeLines \subseteq {1}
        /\ \A k \in GradeLines : GradeOf(Lines(cout)[k]) \in {0, 1}
        /\ ExitStatus = 0 <=> Cardinality(GradeLines) = 1
        /\ ExitStatus # 0 <=> GradeLines = {}
        /\ GradeLines = {} => Lines(cout) = <<>>

\* A run that ended with a grade line followed by the echo of a claimed
\* file of several lines.
C7_Witness ==
    /\ Ended
    /\ Len(Lines(cout)) >= 4
    /\ GradeLines = {1}

(***************************************************************************)
(* C8.  Whitespace collapse.                                               *)
(***************************************************************************)
\* The tokenizer has returned the last token of its stream.
Exhausted == pc \in {"tokenize", "terminate"} /\ ~claimed.mIsValid

\* The tails: a space and a newline, a newline, a space, nothing.
Tails == {<<SP, NL>>, <<NL>>, <<SP>>, <<>>}

\* The stream without its j-th character.
Without(s, j) == SubSeq(s, 1, j - 1) \o SubSeq(s, j + 1, Len(s))

NoInvalid(ts) == \A k \in DOMAIN ts : ts[k].mKind # "Invalid"

\* C8: a stream that ends, after the last character of its last value, in
\* one of the four tails has the tokens of the stream without the tail,
\* and (when no token is Invalid) they end in the Valid token of that
\* value followed at once by EndOfFile; and a stream with a single space
\* before a newline that is not its last character, no other space before
\* that space, has the tokens of the stream without the space.
C8_WhitespaceCollapse ==
    Exhausted =>
        LET s == claimedFile
            n == Len(claimedTokens)
        IN  /\ \A w \in Tails : \A m \in 1 .. Len(s) :
                  (s = SubSeq(s, 1, m) \o w /\ ~isspace(s[m])) =>
                      /\ claimedTokens = Tokenize(T, SubSeq(s, 1, m))
                      /\ NoInvalid(claimedTokens) =>
                            /\ n >= 2
                            /\ claimedTokens[n - 1].mKind = "Valid"
                            /\ T = "char" => claimedTokens[n - 1].mValue = s[m]
                            /\ claimedTokens[n]
                                 = Token("EndOfFile",
                                         claimedTokens[n - 1].mLine,
                                         claimedTokens[n - 1].mToken + 1)
            /\ \A j \in 1 .. Len(s) - 2 :
                  (/\ s[j] = SP /\ s[j + 1] = NL
                   /\ (j = 1 \/ s[j - 1] # SP)) =>
                      claimedTokens = Tokenize(T, Without(s, j))

\* "a \nb " was tokenized: 'a', a Newline for " \n", 'b', and EndOfFile for
\* the last space.
C8_Witness ==
    /\ Exhausted
    /\ T = "char"
    /\ claimedFile = <<97, SP, NL, 98, SP>>
    /\ claimedTokens = <<ValidToken(97, 1, 1), Token("Newline", 1, 2),
                         ValidToken(98, 2, 1), Token("EndOfFile", 2, 2)>>

(***************************************************************************)
(* C9.  Lines and token numbers.                                           *)
(***************************************************************************)
\* C9: of the tokens successive next() calls return, the first has line 1
\* and token 1; lines never decrease; the token after a Newline has the
\* next line and token 1; the token after a Valid or a Space has the same
\* line and the next token number.
C9_Positions ==
    \A k \in DOMAIN claimedTokens :
        LET t == claimedTokens[k]
        IN  IF k = 1 THEN t.mLine = 1 /\ t.mToken = 1
            ELSE LET p == claimedTokens[k - 1]
                 IN  /\ p.mLine <= t.mLine
                     /\ p.mKind = "Newline" =>
                           t.mLine = p.mLine + 1 /\ t.mToken = 1
                     /\ p.mKind \in {"Valid", "Space"} =>
                           t.mLine = p.mLine /\ t.mToken = p.mToken + 1

\* A Valid, a Space, a Valid and a Newline token, and a Valid one after
\* them on the second line.
C9_Witness ==
    /\ pc = "tokenize"
    /\ Len(claimedTokens) = 5
    /\ [k \in 1 .. 5 |-> claimedTokens[k].mKind]
          = <<"Valid", "Space", "Valid", "Newline", "Valid">>
    /\ claimedTokens[5].mLine = 2

(***************************************************************************)
(* C10.  Token equality: reflexive, symmetric.                             *)
(***************************************************************************)
BothValid == correctToken.mKind = "Valid" /\ claimedToken.mKind = "Valid"

\* C10 as stated: under both profiles s.isEqual(s) holds and
\* s.isEqual(t) = t.isEqual(s), for all tokens s and t.
C10_AsStated == equal.called => (equal.ss /\ equal.st = equal.ts)

\* C10 as amended: for tokens whose values are finite (the only Valid
\* tokens the tokenizer returns), under both profiles s.isEqual(s) holds;
\* s.isEqual(t) = t.isEqual(s) holds under the exact character predicate,
\* for tokens that are not both Valid, and under the tolerance-based
\* predicate when the absolute difference is at most 1e-5; the
\* tolerance-based predicate is not symmetric beyond that, its 1% band
\* being relative to the first argument.
C10_ReflexiveAndSymmetric ==
    equal.called =>
        /\ equal.ss
        /\ (T = "char" \/ ~BothValid) => equal.st = equal.ts
        /\ (/\ T = "real" /\ BothValid
            /\ Abs(correctToken.mValue - claimedToken.mValue)
                  <= Scale \div 100000)
              => (equal.st /\ equal.ts)

\* Two Valid tokens of different values and positions that are equal both
\* ways under the tolerance-based predicate.
C10_Witness ==
    /\ equal.called /\ T = "real" /\ BothValid
    /\ correctToken.mValue # claimedToken.mValue
    /\ correctToken.mLine # claimedToken.mLine
    /\ equal.ss /\ equal.st /\ equal.ts

(***************************************************************************)
(* C11.  The tolerance of the real profile, around the ground truth.       *)
(***************************************************************************)
\* b is within 1e-5 of a, or within one hundredth of |a| of a.
WithinTolerance(a, b) ==
    \/ Abs(a - b) <= Scale \div 100000
    \/ Abs(b - a) <= Abs(a) \div 100

\* The last iteration of the comparison loop compared two Valid tokens.
ComparedValid ==
    /\ pc \in {"loop", "lookahead", "done"}
    /\ Len(correctTokens) >= 1
    /\ Len(claimedTokens) = Len(correctTokens)
    /\ BothValid

\* C11: in the real profile the comparison loop accepts a claimed value b
\* against a ground-truth value a (goes on to the next pair) exactly when
\* |a - b| <= 1e-5 or b lies in the 1% band around a, the ground-truth
\* value; otherwise it grades 0.  Claimed 1.000001 matches 1.0, 101 matches
\* 100, -101 matches -100, and 99 matches 100 while 100 does not match 99.
C11_ToleranceAroundGroundTruth ==
    /\ (T = "real" /\ ComparedValid) =>
          /\ pc = "loop" <=> WithinTolerance(correctToken.mValue,
                                             claimedToken.mValue)
          /\ pc # "loop" => WroteGrade(0)
    /\ (Ended /\ BothOpen /\ T = "real"
           /\ <<claimedFile, correctFile>> \in TolerancePairs) =>
          IF <<claimedFile, correctFile>> = <<Stream100, Stream99>>
          THEN WroteGrade(0)
          ELSE cout = << <<"1|Correct output.">> >>

\* Claimed 99 was accepted against the ground truth 100.
C11_Witness ==
    /\ T = "real" /\ ComparedValid /\ pc = "loop"
    /\ correctToken.mValue = 100 * Scale
    /\ claimedToken.mValue = 99 * Scale

(***************************************************************************)
(* C12.  The short form of a token, and the diagnostic buffer.             *)
(***************************************************************************)
\* The short forms checkerOutput holds: one for each claimed token pulled
\* in an iteration that reached line 87 or 135.
Buffered ==
    {k \in DOMAIN checkerOutput : k <= Len(claimedTokens)}

\* C12 as stated: the buffer holds, for each claimed token pulled, the
\* value's text for Valid, "\n" for Newline, " " for Space, and the empty
\* string for EndOfFile and for Invalid.
C12_AsStated ==
    \A k \in Buffered :
        LET t == claimedTokens[k]
        IN  checkerOutput[k] =
                CASE t.mKind = "Valid" -> ValueText(T, t.mValue)
                  [] t.mKind = "Newline" -> "\n"
                  [] t.mKind = "Space" -> " "
                  [] OTHER -> ""

\* C12 as amended: the short form of a token is the value as operator<<
\* writes it for Valid (the character in the char profile, the number
\* with six significant digits in the real profile, which need not be the
\* text consumed), "\n" for Newline, " " for Space, "<end>" for EndOfFile
\* and "<invalid-format>" for Invalid; the diagnostic buffer is the short
\* forms of the claimed tokens pulled, in order, so it ends in text that
\* was not read from the claimed stream whenever the last token pulled is
\* EndOfFile or Invalid.
C12_ShortForms ==
    /\ \A k \in Buffered :
          LET t == claimedTokens[k]
          IN  checkerOutput[k] =
                  CASE t.mKind = "Valid" ->
                           IF T = "char" THEN Chr(t.mValue)
                           ELSE FormatReal(t.mValue)
                    [] t.mKind = "Newline" -> "\n"
                    [] t.mKind = "Space" -> " "
                    [] t.mKind = "EndOfFile" -> "<end>"
                    [] t.mKind = "Invalid" -> "<invalid-format>"
    /\ pc \in {"loop", "lookahead"} =>
          Len(checkerOutput) = Len(claimedTokens)
    /\ (pc = "done" /\ claimedTokens # <<>>) =>
          Len(checkerOutput) >= Len(claimedTokens) - 1
    /\ (T = "real" /\ claimedFile = <<49, 46>> /\ checkerOutput # <<>>) =>
          checkerOutput[1] = "1"

\* The buffer of a real-profile run on the claimed file "1.": the value
\* written as "1", then "<end>".
C12_Witness ==
    /\ T = "real" /\ claimedFile = <<49, 46>>
    /\ Len(checkerOutput) >= 2
    /\ checkerOutput[1] = "1" /\ checkerOutput[2] = "<end>"

(***************************************************************************)
(* C13.  The truncation marker.                                            *)
(***************************************************************************)
\* The run echoed the claimed output: a mismatch, show-output-echo on, not
\* hidden.
Echoed ==
    /\ pc = "done" /\ BothOpen /\ ShowOutput /\ argv4 = "0"
    /\ WroteGrade(0)

\* The text appended to the buffer after the short forms of the tokens.
MarkerText ==
    IF Len(checkerOutput) > Len(claimedTokens)
    THEN checkerOutput[Len(checkerOutput)] ELSE ""

\* C13: after an echo, the marker is ..?.. if the last claimed token pulled
\* is Invalid; otherwise it is ..... if and only if the claimed stream has
\* unread content left, and nothing if the stream is exhausted, also when
\* it ends exactly at the last token of the look-ahead window.
C13_AsStated ==
    Echoed =>
        IF claimedToken.mKind = "Invalid" THEN MarkerText = "..?.."
        ELSE /\ MarkerText = "....." <=> claimed.mInput # <<>>
             /\ claimed.mInput = <<>> => MarkerText = ""

(***************************************************************************)
(* C14.  next() is never called on a tokenizer that is not valid.          *)
(***************************************************************************)
\* C14: in every run, whenever the comparison loop is about to pull a pair
\* of tokens both tokenizers are valid, whenever the look-ahead loop is
\* about to pull a claimed token the claimed tokenizer is valid, and no
\* run ends by an exception of next().
C14_NeverCalledInvalid ==
    /\ pc = "loop" => (claimed.mIsValid /\ correct.mIsValid)
    /\ (pc = "lookahead" /\ i < LookAhead /\ ~EchoStops(claimedToken)) =>
          claimed.mIsValid
    /\ pc # "terminate"
    /\ \A k \in DOMAIN claimedTokens :
          claimedTokens[k].mKind \in {"EndOfFile", "Invalid"} =>
              k = Len(claimedTokens)
    /\ \A k \in DOMAIN correctTokens :
          correctTokens[k].mKind \in {"EndOfFile", "Invalid"} =>
              k = Len(correctTokens)

\* The look-ahead loop pulled the claimed EndOfFile and stopped there, with
\* room left in the window; the run has ended.
C14_Witness ==
    /\ pc = "done"
    /\ i >= 1 /\ i < LookAhead
    /\ claimedToken.mKind = "EndOfFile"
    /\ ~claimed.mIsValid

(***************************************************************************)
(* C15.  What is pulled after the first mismatch.                          *)
(***************************************************************************)
\* The tokenizer after n calls of next() that return.
RECURSIVE TokenizerAfter(_, _, _)
TokenizerAfter(p, tz, n) ==
    IF n = 0 THEN tz ELSE TokenizerAfter(p, next(p, tz).tz, n - 1)

\* The claimed tokens pulled beyond those compared.
Extra == Len(claimedTokens) - Len(correctTokens)

\* C15: the ground-truth tokenizer is advanced once per comparison and
\* never after the first mismatch, where the comparisons end; the claimed
\* tokenizer is advanced as often as the ground-truth one up to the
\* mismatch, and after it at most LookAhead more times (10 in the char
\* profile, 3 in the real one), only with show-output-echo on and hidden =
\* false, and not beyond an EndOfFile or Invalid token.
C15_AfterMismatch ==
    (BothOpen /\ pc # "args" /\ pc # "openClaimed" /\ pc # "openCorrect") =>
        LET u == Unequal
            n == Len(correctTokens)
        IN  /\ correct = TokenizerAfter(T, Tokenizer(correctFile), n)
            /\ claimed = TokenizerAfter(T, Tokenizer(claimedFile),
                                        Len(claimedTokens))
            /\ \A k \in u : n <= k
            /\ Extra >= 0
            /\ Extra <= (IF T = "char" THEN LookAheadChar ELSE LookAheadReal)
            /\ Extra > 0 =>
                  /\ ShowOutput /\ argv4 = "0"
                  /\ n \in u
                  /\ \A k \in n .. Len(claimedTokens) - 1 :
                        claimedTokens[k].mKind \notin {"EndOfFile", "Invalid"}
            /\ (\A k \in u : n < k) => Extra = 0
            /\ (Ended /\ n \in u /\ ShowOutput /\ argv4 = "0"
                   /\ correctTokens[n].mKind # "Invalid") =>
                  \/ Extra = (IF T = "char" THEN LookAheadChar
                              ELSE LookAheadReal)
                  \/ claimedTokens[Len(claimedTokens)].mKind
                        \in {"EndOfFile", "Invalid"}

\* A real-profile run that met its mismatch at the second pair and pulled
\* a full window of three more claimed tokens.
C15_Witness ==
    /\ pc = "done" /\ T = "real"
    /\ Len(correctTokens) = 2
    /\ Extra = LookAheadReal

(***************************************************************************)
(* C16.  Active and Exhausted.                                             *)
(***************************************************************************)
Terminal(t) == t.mKind \in {"EndOfFile", "Invalid"}

\* C16: after every call of next() that returns, the tokenizer is not
\* valid if and only if the token returned is EndOfFile or Invalid; it
\* never becomes valid again, so the tokens of a stream hold exactly one
\* EndOfFile or Invalid token, the last one.
C16_ExhaustedIffTerminal ==
    /\ claimedTokens = <<>> => claimed.mIsValid
    /\ claimedTokens # <<>> =>
          /\ claimedToken = claimedTokens[Len(claimedTokens)]
          /\ ~claimed.mIsValid <=> Terminal(claimedToken)
    /\ \A k \in 1 .. Len(claimedTokens) - 1 : ~Terminal(claimedTokens[k])
    /\ pc = "terminate" =>
          /\ ~claimed.mIsValid
          /\ claimedTokens # <<>>
          /\ Cardinality({k \in DOMAIN claimedTokens :
                              Terminal(claimedTokens[k])}) = 1
          /\ claimedTokens = Tokenize(T, claimedFile)

\* next() returned an Invalid token as the third token of a stream, and
\* the tokenizer is exhausted.
C16_Witness ==
    /\ pc = "tokenize"
    /\ Len(claimedTokens) = 3
    /\ claimedToken.mKind = "Invalid"
    /\ ~claimed.mIsValid

(***************************************************************************)
(* C17.  When Space and Newline tokens are returned.                       *)
(***************************************************************************)
\* The stream as it was before the last call of next().
InputBefore ==
    TokenizerAfter(T, Tokenizer(claimedFile), Len(claimedTokens) - 1).mInput

\* C17: next() returns a Space token only for a space whose next character
\* exists and is no newline, and a Newline token only for a newline (with
\* or without one space before it) after which a character is left; one
\* trailing space and one trailing newline are collapsed, no more: a
\* stream tokenized to its end that ends in two spaces has a Space token,
\* and one that ends in two newlines a Newline token, right before
\* EndOfFile.
C17_SpaceAndNewline ==
    /\ (pc = "tokenize" /\ claimedTokens # <<>>) =>
          LET rest == claimed.mInput
          IN  /\ claimedToken.mKind = "Space" =>
                    /\ InputBefore = <<SP>> \o rest
                    /\ rest # <<>> /\ Head(rest) # NL
              /\ claimedToken.mKind = "Newline" =>
                    /\ InputBefore \in {<<NL>> \o rest, <<SP, NL>> \o rest}
                    /\ rest # <<>>
    /\ (Exhausted /\ claimedToken.mKind = "EndOfFile") =>
          LET s == claimedFile
              n == Len(claimedTokens)
          IN  /\ (Len(s) >= 2 /\ SubSeq(s, Len(s) - 1, Len(s)) = <<SP, SP>>) =>
                    n >= 2 /\ claimedTokens[n - 1].mKind = "Space"
              /\ (Len(s) >= 2 /\ SubSeq(s, Len(s) - 1, Len(s)) = <<NL, NL>>) =>
                    n >= 2 /\ claimedTokens[n - 1].mKind = "Newline"

\* "a  " was tokenized to its end: 'a', a Space for the first of the two
\* trailing spaces, EndOfFile.
C17_Witness ==
    /\ Exhausted /\ T = "char"
    /\ claimedFile = <<97, SP, SP>>
    /\ [k \in 1 .. 3 |-> claimedTokens[k].mKind]
          = <<"Valid", "Space", "EndOfFile">>

(***************************************************************************)
(* C18.  The value branch of next() in the character profile.              *)
(***************************************************************************)
\* C18: in the character profile, when the character peeked is neither the
\* end of the stream, a newline nor a space, next() returns a Valid token
\* carrying that very character if it lies in '!'..'~', and otherwise an
\* Invalid token, leaving the tokenizer exhausted; either way it consumes
\* the peeked character and no other.
C18_AsStated ==
    (T = "char" /\ pc = "tokenize" /\ claimedTokens # <<>>
       /\ InputBefore # <<>> /\ Head(InputBefore) \notin {NL, SP}) =>
        LET c == Head(InputBefore)
        IN  /\ claimed.mInput = Tail(InputBefore)
            /\ IF 33 <= c /\ c <= 126
               THEN /\ claimedToken.mKind = "Valid"
                    /\ claimedToken.mValue = c
               ELSE /\ claimedToken.mKind = "Invalid"
                    /\ ~claimed.mIsValid

(***************************************************************************)
(* C19.  Termination.                                                      *)
(***************************************************************************)
\* The last call of next() on a tokenizer consumed a character or left
\* the tokenizer exhausted.
Progressed(file, tz, n) ==
    n >= 1 =>
        \/ ~tz.mIsValid
        \/ Len(tz.mInput)
              < Len(TokenizerAfter(T, Tokenizer(file), n - 1).mInput)

\* The bounds of the two loops, and the two ways a run ends.
C19_Bounds ==
    /\ Progressed(claimedFile, claimed, Len(claimedTokens))
    /\ Progressed(correctFile, correct, Len(correctTokens))
    /\ Len(correctTokens) <= Len(correctFile) + 1
    /\ i <= (IF T = "char" THEN LookAheadChar ELSE LookAheadReal)
    /\ Extra = i
    /\ pc \in {"args", "openClaimed", "openCorrect", "loop", "lookahead",
               "done"}
    /\ pc = "done" =>
          \/ Cardinality(GradeLines) = 1 /\ ret = 0
          \/ GradeLines = {} /\ ret # 0 /\ cerr # <<>>

\* A bound on the steps a run has left: the statements before the loop,
\* then one iteration for each character the ground-truth tokenizer has
\* not read and one for its EndOfFile, then the look-ahead window.
StepsLeft ==
    LET window == IF T = "char" THEN LookAheadChar ELSE LookAheadReal
    IN  CASE pc = "args" -> Len(correctFile) + window + 6
          [] pc = "openClaimed" -> Len(correctFile) + window + 5
          [] pc = "openCorrect" -> Len(correctFile) + window + 4
          [] pc = "loop" -> Len(correct.mInput) + window + 2
                              + (IF correct.mIsValid THEN 1 ELSE 0)
          [] pc = "lookahead" -> window - i + 1
          [] OTHER -> 0

\* C19: every run ends, with a grade line or with an environment failure:
\* a run that has not ended is at a statement that takes a step, and every
\* step lowers a bound on the steps left; each call of next() consumes at
\* least one character of its stream or leaves the tokenizer exhausted, so
\* the comparison loop runs at most (length of the ground-truth stream +
\* 1) iterations and the look-ahead loop at most LookAhead iterations.
C19_Terminates ==
    /\ []C19_Bounds
    /\ [][StepsLeft >= 0 /\ StepsLeft' >= 0 /\ StepsLeft' < StepsLeft]_vars

\* A run that ended after as many iterations as the ground-truth stream is
\* long plus one, three at least.
C19_Witness ==
    /\ pc = "done"
    /\ Len(correctTokens) = Len(correctFile) + 1
    /\ Len(correctTokens) >= 3

=============================================================================
